---------------------------- MODULE Spec2Model ----------------------------
(***************************************************************************)
(* Klampt root finding: the Python call surface of klampt.math.rootfind    *)
(* (setFTolerance, setXTolerance, setVectorField, findRoots,               *)
(* findRootsBounded, destroy) over the process-wide solver session and the *)
(* Newton solver core of the native module _rootfind.                      *)
(*                                                                         *)
(* Numbers live on an integer grid: one grid unit is the resolution of a   *)
(* coordinate, a quotient is truncated towards zero, and norms are compared*)
(* through their squares, so that every comparison of the solver is exact. *)
(*                                                                         *)
(* Klampt robot descriptions: klampt.model.robotinfo, the class RobotInfo  *)
(* (the registry, save and load, klamptModel and the search for files,     *)
(* configureControllerEndEffectors) and the class GripperInfo              *)
(* (descendantLinks, evalSynergy, configToSynergy).                        *)
(***************************************************************************)
EXTENDS Integers, Sequences, FiniteSets

VARIABLES
    activeField,   \* the session's vector-field reference, or NULL
    fTolerance,    \* the session's termination threshold on ||f||
    xTolerance,    \* the session's termination threshold on ||dx||
    run,           \* the solve in flight (the core's loop variables)
    ret,           \* what the last call of the surface returned or raised
    hist,          \* history of the calls made (what the caller did)
    all_robots,    \* RobotInfo.all_robots: the global registry, name -> object
    heap,          \* the RobotInfo objects constructed so far (the index is the identity)
    disk,          \* the file system: path -> what the file holds
    models,        \* number of RobotModel objects WorldModel.loadRobot has made
    rret,          \* what the last call on robotinfo returned or raised
    rhist,         \* history of the calls made on robotinfo
    gcall          \* a call of a pure method: its inputs and its result

vars == <<activeField, fTolerance, xTolerance, run, ret, hist,
          all_robots, heap, disk, models, rret, rhist, gcall>>
session == <<activeField, fTolerance, xTolerance>>
rootfind == <<activeField, fTolerance, xTolerance, run, ret, hist>>
robotinfo == <<all_robots, heap, disk, models, rret, rhist>>

---------------------------------------------------------------------------
(* Bounds of the model *)
MaxTol == 2
MaxIter == 3
MaxStart == 4

(* Status codes of a result *)
ConvergedX == 0
ConvergedF == 1
Diverged == 2
Degenerate == 3
MaxIterations == 4
NumericalError == 5

(* Constants of the core *)
DefaultTolerance == 1
MaxHalvings == 4
DivergenceCeiling == 5
DivergenceCount == 3
FiniteDifferenceStep == 1

NULL == "NULL"
Fields == {"ident", "shift", "jump", "absval", "nandom", "sq2", "affine2"}
TolValues == (-1)..MaxTol
IterValues == 1..MaxIter
Starts == {<<s>> : s \in (-1)..MaxStart} \cup {<<0, 0>>, <<MaxStart, 1>>}
Boxes == {<<<<0>>, <<5>>>>, <<<<3>>, <<5>>>>, <<<<3>>, <<2>>>>,
          <<<<0, 0>>, <<1, 1>>>>, <<<<2, 0>>, <<1, 1>>>>}

---------------------------------------------------------------------------
(* Integer and vector arithmetic *)
Abs(a) == IF a < 0 THEN -a ELSE a
Sgn(a) == IF a < 0 THEN -1 ELSE IF a > 0 THEN 1 ELSE 0
Quot(a, b) == IF (a < 0) = (b < 0) THEN Abs(a) \div Abs(b) ELSE -(Abs(a) \div Abs(b))
VecAdd(u, v) == [i \in DOMAIN u |-> u[i] + v[i]]
VecSub(u, v) == [i \in DOMAIN u |-> u[i] - v[i]]
Half(v) == [i \in DOMAIN v |-> Quot(v[i], 2)]
Unit(n, j) == [i \in 1..n |-> IF i = j THEN FiniteDifferenceStep ELSE 0]

RECURSIVE SumSq(_, _)
SumSq(v, k) == IF k = 0 THEN 0 ELSE v[k] * v[k] + SumSq(v, k - 1)
Norm2(v) == SumSq(v, Len(v))

InBox(x, lo, hi) == \A i \in DOMAIN x : lo[i] <= x[i] /\ x[i] <= hi[i]
Clamp(x, lo, hi) ==
    [i \in DOMAIN x |-> IF x[i] < lo[i] THEN lo[i] ELSE IF x[i] > hi[i] THEN hi[i] ELSE x[i]]

---------------------------------------------------------------------------
(* The vector fields a caller installs: evaluate, and for some a jacobian *)
Finite(v) == [nan |-> FALSE, v |-> v]
NotFinite(n) == [nan |-> TRUE, v |-> [i \in 1..n |-> 0]]

FieldDim(f) == IF f \in {"sq2", "affine2"} THEN 2 ELSE 1
HasJacobian(f) == f # "nandom"
\* The fields whose evaluate calls the module's tolerance setters.
Reentrant(f) == f \in {"jump"}

evaluate(f, x) ==
    CASE f = "ident" -> Finite(<<x[1]>>)
      [] f = "shift" -> Finite(<<x[1] - 10>>)
      [] f = "jump" -> Finite(<<x[1] + 2 * Sgn(x[1])>>)
      [] f = "absval" -> Finite(<<Abs(x[1]) + 1>>)
      [] f = "nandom" -> IF x[1] = 2 THEN NotFinite(1) ELSE Finite(<<x[1] + 2 * Sgn(x[1])>>)
      [] f = "sq2" -> Finite(<<x[1] * x[1], x[1] * x[1]>>)
      [] f = "affine2" -> Finite(<<x[1] + x[2] - 3, x[1] - x[2] - 1>>)

jacobian(f, x) ==
    CASE f = "sq2" -> <<<<2 * x[1], 0>>, <<2 * x[1], 0>>>>
      [] f = "affine2" -> <<<<1, 1>>, <<1, -1>>>>
      [] f = "absval" -> <<<<IF x[1] < 0 THEN -1 ELSE 1>>>>
      [] OTHER -> <<<<1>>>>

\* The affine fields F(x) = A x - b with A non-singular, and their roots.
Affine(f) == f \in {"ident", "shift", "affine2"}
Root(f) ==
    CASE f = "ident" -> <<0>>
      [] f = "shift" -> <<10>>
      [] f = "affine2" -> <<2, 1>>

---------------------------------------------------------------------------
(* The Newton solver core: one iteration is steps 1 to 9 *)

\* Step 3: the field's own Jacobian, or forward finite differences (n more
\* evaluations). nan: some evaluation was not finite.
FiniteDifference(f, x, fx) ==
    LET n == Len(x)
        col(j) == evaluate(f, VecAdd(x, Unit(n, j)))
    IN  [nan |-> \E j \in 1..n : col(j).nan,
         m |-> [i \in 1..n |-> [j \in 1..n |->
                   IF col(j).nan THEN 0 ELSE Quot(col(j).v[i] - fx[i], FiniteDifferenceStep)]],
         calls |-> n]

ObtainJacobian(f, x, fx) ==
    IF HasJacobian(f)
    THEN [nan |-> FALSE, m |-> jacobian(f, x), calls |-> 1]
    ELSE FiniteDifference(f, x, fx)

\* Step 4: solve J dx = -f; singular when the determinant vanishes.
Det(m) == IF Len(m) = 1 THEN m[1][1] ELSE m[1][1] * m[2][2] - m[1][2] * m[2][1]
LinearSolve(m, fx) ==
    IF Det(m) = 0 THEN [singular |-> TRUE, dx |-> [i \in DOMAIN fx |-> 0]]
    ELSE IF Len(m) = 1
    THEN [singular |-> FALSE, dx |-> <<Quot(-fx[1], m[1][1])>>]
    ELSE [singular |-> FALSE,
          dx |-> <<Quot(-(fx[1] * m[2][2] - m[1][2] * fx[2]), Det(m)),
                   Quot(-(m[1][1] * fx[2] - m[2][1] * fx[1]), Det(m))>>]

\* Step 5: the full step, then up to MaxHalvings halvings, until the residual
\* norm at x + dx is below the one at x. k: halvings done so far. sawNaN
\* records that an evaluation here was not finite.
\* Mutant: a trial point where the field is not finite is compared like a
\* number; every comparison with NaN is false, so the step is taken.
RECURSIVE Backtrack_NaNCompares(_, _, _, _, _)
Backtrack_NaNCompares(f, x, dx, r2, k) ==
    LET e == evaluate(f, VecAdd(x, dx)) IN
    IF e.nan THEN [kind |-> "ok", dx |-> dx, calls |-> k + 1, sawNaN |-> TRUE]
    ELSE IF Norm2(e.v) < r2 THEN [kind |-> "ok", dx |-> dx, calls |-> k + 1, sawNaN |-> FALSE]
    ELSE IF k >= MaxHalvings THEN [kind |-> "fail", dx |-> dx, calls |-> k + 1, sawNaN |-> FALSE]
    ELSE Backtrack_NaNCompares(f, x, Half(dx), r2, k + 1)

RECURSIVE Backtrack(_, _, _, _, _)
Backtrack(f, x, dx, r2, k) ==
    LET e == evaluate(f, VecAdd(x, dx)) IN
    IF e.nan THEN [kind |-> "nan", dx |-> dx, calls |-> k + 1, sawNaN |-> TRUE]
    ELSE IF Norm2(e.v) < r2 THEN [kind |-> "ok", dx |-> dx, calls |-> k + 1, sawNaN |-> FALSE]
    ELSE IF k >= MaxHalvings THEN [kind |-> "fail", dx |-> dx, calls |-> k + 1, sawNaN |-> FALSE]
    ELSE Backtrack(f, x, Half(dx), r2, k + 1)

\* Step 6: the candidate, clipped into the box when there is one.
Candidate(x, dx, bounded, lo, hi) ==
    IF bounded THEN Clamp(VecAdd(x, dx), lo, hi) ELSE VecAdd(x, dx)

\* Step 8: consecutive iterations whose residual grew beyond the ceiling.
Grown(r2, prevR2, grown) ==
    IF prevR2 >= 0 /\ r2 > prevR2 /\ r2 > DivergenceCeiling * DivergenceCeiling
    THEN grown + 1 ELSE 0

\* What one iteration hands back. used: 1 when the iteration took its step;
\* calls: callbacks of the field made; nan: one of them was not finite.
Stop(status, x, used, calls, nan) ==
    [done |-> TRUE, status |-> status, x |-> x, used |-> used, calls |-> calls,
     nan |-> nan, r2 |-> -1, grown |-> 0]
Continue(x, calls, nan, r2, grown) ==
    [done |-> FALSE, status |-> MaxIterations, x |-> x, used |-> 1, calls |-> calls,
     nan |-> nan, r2 |-> r2, grown |-> grown]

\* Mutant: the f-tolerance check is made after the x-tolerance check of step 7.
Iteration_XCheckFirst(f, x, bounded, lo, hi, ftol, xtol, prevR2, grown) ==
    LET e == evaluate(f, x) IN
    IF e.nan THEN Stop(NumericalError, x, 0, 1, e.nan)
    ELSE LET r2 == Norm2(e.v)
             J == ObtainJacobian(f, x, e.v)
         IN
    IF J.nan THEN Stop(NumericalError, x, 0, 1 + J.calls, J.nan)
    ELSE LET s == LinearSolve(J.m, e.v) IN
    IF s.singular THEN Stop(Degenerate, x, 0, 1 + J.calls, J.nan)
    ELSE LET b == Backtrack(f, x, s.dx, r2, 0)
             c == 1 + J.calls + b.calls
         IN
    IF b.kind = "nan" THEN Stop(NumericalError, x, 0, c, b.sawNaN)
    ELSE IF b.kind = "fail" THEN Stop(Diverged, x, 0, c, b.sawNaN)
    ELSE LET cand == Candidate(x, b.dx, bounded, lo, hi)
             g == Grown(r2, prevR2, grown)
         IN
    IF Norm2(VecSub(cand, x)) < xtol * xtol THEN Stop(ConvergedX, cand, 1, c, b.sawNaN)
    ELSE IF r2 < ftol * ftol THEN Stop(ConvergedF, x, 0, c, b.sawNaN)
    ELSE IF g >= DivergenceCount THEN Stop(Diverged, x, 0, c, b.sawNaN)
    ELSE Continue(cand, c, b.sawNaN, r2, g)

Iteration(f, x, bounded, lo, hi, ftol, xtol, prevR2, grown) ==
    LET e == evaluate(f, x) IN
    IF e.nan THEN Stop(NumericalError, x, 0, 1, e.nan)
    ELSE LET r2 == Norm2(e.v) IN
    IF r2 < ftol * ftol THEN Stop(ConvergedF, x, 0, 1, e.nan)
    ELSE LET J == ObtainJacobian(f, x, e.v) IN
    IF J.nan THEN Stop(NumericalError, x, 0, 1 + J.calls, J.nan)
    ELSE LET s == LinearSolve(J.m, e.v) IN
    IF s.singular THEN Stop(Degenerate, x, 0, 1 + J.calls, J.nan)
    ELSE LET b == Backtrack(f, x, s.dx, r2, 0)
             c == 1 + J.calls + b.calls
         IN
    IF b.kind = "nan" THEN Stop(NumericalError, x, 0, c, b.sawNaN)
    ELSE IF b.kind = "fail" THEN Stop(Diverged, x, 0, c, b.sawNaN)
    ELSE LET cand == Candidate(x, b.dx, bounded, lo, hi)
             g == Grown(r2, prevR2, grown)
         IN
    IF Norm2(VecSub(cand, x)) < xtol * xtol THEN Stop(ConvergedX, cand, 1, c, b.sawNaN)
    ELSE IF g >= DivergenceCount THEN Stop(Diverged, x, 0, c, b.sawNaN)
    ELSE Continue(cand, c, b.sawNaN, r2, g)

---------------------------------------------------------------------------
(* What a call hands back to its caller *)
NoRet == [op |-> "none", kind |-> "none", err |-> "", value |-> 0,
          status |-> 0, x |-> <<>>, n |-> 0]
Return(op, value) == [NoRet EXCEPT !.op = op, !.kind = "return", !.value = value]
Raise(op, err) == [NoRet EXCEPT !.op = op, !.kind = "raise", !.err = err]
Pending(op) == [NoRet EXCEPT !.op = op, !.kind = "pending"]
\* Mutant: the status codes counted from one.
Result_OneBasedStatus(op, status, x, n) ==
    [NoRet EXCEPT !.op = op, !.kind = "result", !.status = status + 1, !.x = x, !.n = n]
Result(op, status, x, n) ==
    [NoRet EXCEPT !.op = op, !.kind = "result", !.status = status, !.x = x, !.n = n]

\* A call made while a solve is in flight comes from a callback of the field:
\* its return goes to the callback, and the solve's caller is still waiting.
Deliver(r) == ret' = IF run.active THEN ret ELSE r

Idle == [active |-> FALSE, op |-> "none", field |-> NULL, x |-> <<>>, iters |-> 0,
         maxIter |-> 0, ftol |-> 0, xtol |-> 0, bounded |-> FALSE,
         lo |-> <<>>, hi |-> <<>>, prevR2 |-> -1, grown |-> 0]

---------------------------------------------------------------------------
(* The native module _rootfind: the solver session *)

rootfind_setFTolerance(tolf) ==
    /\ IF tolf < 0
       THEN Deliver(Raise("setFTolerance", "invalid tolerance")) /\ UNCHANGED fTolerance
       ELSE Deliver(Return("setFTolerance", 0)) /\ fTolerance' = tolf
    /\ UNCHANGED <<activeField, xTolerance, run>>

rootfind_setXTolerance(tolx) ==
    /\ IF tolx < 0
       THEN Deliver(Raise("setXTolerance", "invalid tolerance")) /\ UNCHANGED xTolerance
       ELSE Deliver(Return("setXTolerance", 0)) /\ xTolerance' = tolx
    /\ UNCHANGED <<activeField, fTolerance, run>>

rootfind_setVectorField(pVFObj) ==
    /\ IF pVFObj = NULL
       THEN ret' = Return("setVectorField", 0) /\ UNCHANGED activeField
       ELSE ret' = Return("setVectorField", 1) /\ activeField' = pVFObj
    /\ UNCHANGED <<fTolerance, xTolerance, run>>

\* Mutant: destroy puts the whole session back to its initial state.
rootfind_destroy_ResetsTolerances ==
    /\ activeField' = NULL
    /\ run' = Idle
    /\ ret' = Return("destroy", 0)
    /\ fTolerance' = DefaultTolerance
    /\ xTolerance' = DefaultTolerance

\* Mutant: destroy with nothing to destroy is an error.
rootfind_destroy_RaisesWhenEmpty ==
    IF activeField = NULL
    THEN ret' = Raise("destroy", "no vector field set") /\ UNCHANGED <<session, run>>
    ELSE /\ activeField' = NULL
         /\ run' = Idle
         /\ ret' = Return("destroy", 0)
         /\ UNCHANGED <<fTolerance, xTolerance>>

rootfind_destroy ==
    /\ activeField' = NULL
    /\ run' = Idle
    /\ ret' = Return("destroy", 0)
    /\ UNCHANGED <<fTolerance, xTolerance>>

\* The solve call: the configuration errors, then the core's loop variables
\* with the session's tolerances as they are now.
StartRun(op, startVals, bounded, lo, hi, iter) ==
    [active |-> TRUE, op |-> op, field |-> activeField,
     x |-> IF bounded THEN Clamp(startVals, lo, hi) ELSE startVals,
     iters |-> 0, maxIter |-> iter, ftol |-> fTolerance, xtol |-> xTolerance,
     bounded |-> bounded, lo |-> lo, hi |-> hi, prevR2 |-> -1, grown |-> 0]

rootfind_findRoots(startVals, iter) ==
    /\ IF activeField = NULL
       THEN ret' = Raise("findRoots", "no vector field set") /\ UNCHANGED run
       ELSE IF Len(startVals) # FieldDim(activeField)
       THEN ret' = Raise("findRoots", "mismatched dimensions") /\ UNCHANGED run
       ELSE /\ ret' = Pending("findRoots")
            /\ run' = StartRun("findRoots", startVals, FALSE, <<>>, <<>>, iter)
    /\ UNCHANGED session

ValidBounds(lo, hi) == \A i \in DOMAIN lo : lo[i] <= hi[i]

rootfind_findRootsBounded(startVals, boundVals, iter) ==
    /\ IF activeField = NULL
       THEN ret' = Raise("findRootsBounded", "no vector field set") /\ UNCHANGED run
       ELSE IF \/ Len(startVals) # FieldDim(activeField)
               \/ Len(boundVals[1]) # Len(startVals)
               \/ Len(boundVals[2]) # Len(startVals)
       THEN ret' = Raise("findRootsBounded", "mismatched dimensions") /\ UNCHANGED run
       ELSE IF ~ValidBounds(boundVals[1], boundVals[2])
       THEN ret' = Raise("findRootsBounded", "invalid bounds") /\ UNCHANGED run
       ELSE /\ ret' = Pending("findRootsBounded")
            /\ run' = StartRun("findRootsBounded", startVals, TRUE,
                               boundVals[1], boundVals[2], iter)
    /\ UNCHANGED session

\* One iteration of the solve in flight; step 9 adopts the candidate and ends
\* the solve when the iteration count reaches the cap.
SolveIteration ==
    /\ run.active
    /\ LET it == Iteration(run.field, run.x, run.bounded, run.lo, run.hi,
                           run.ftol, run.xtol, run.prevR2, run.grown)
       IN  /\ IF it.done
              THEN /\ ret' = Result(run.op, it.status, it.x, run.iters + it.used)
                   /\ run' = Idle
              ELSE IF run.iters + 1 >= run.maxIter
              THEN /\ ret' = Result(run.op, MaxIterations, it.x, run.iters + 1)
                   /\ run' = Idle
              ELSE /\ run' = [run EXCEPT !.x = it.x, !.iters = @ + 1,
                                         !.prevR2 = it.r2, !.grown = it.grown]
                   /\ UNCHANGED ret
           /\ hist' = [hist EXCEPT !.calls = @ + it.calls,
                                   !.sawNaN = @ \/ it.nan]
    /\ UNCHANGED session

\* The whole solve as a function of its inputs: the iterations from x on,
\* with `iters` of them already made.
RECURSIVE Solve(_, _, _, _, _, _, _, _, _, _, _)
Solve(f, x, bounded, lo, hi, ftol, xtol, iters, maxIter, prevR2, grown) ==
    LET it == Iteration(f, x, bounded, lo, hi, ftol, xtol, prevR2, grown) IN
    IF it.done THEN [status |-> it.status, x |-> it.x, n |-> iters + it.used]
    ELSE IF iters + 1 >= maxIter THEN [status |-> MaxIterations, x |-> it.x, n |-> iters + 1]
    ELSE Solve(f, it.x, bounded, lo, hi, ftol, xtol, iters + 1, maxIter, it.r2, it.grown)

---------------------------------------------------------------------------
(* The Python call surface: klampt.math.rootfind *)
\* Mutant: the new tolerance also reaches the solve in flight.
setFTolerance_ReachesSolveInFlight(tolf) ==
    /\ IF tolf < 0
       THEN Deliver(Raise("setFTolerance", "invalid tolerance")) /\ UNCHANGED <<fTolerance, run>>
       ELSE /\ Deliver(Return("setFTolerance", 0))
            /\ fTolerance' = tolf
            /\ run' = IF run.active THEN [run EXCEPT !.ftol = tolf] ELSE run
    /\ UNCHANGED <<activeField, xTolerance>>
setFTolerance(tolf) == rootfind_setFTolerance(tolf)

\* Mutant: setXTolerance forwards to the native setFTolerance.
setXTolerance_ForwardsToF(tolx) == rootfind_setFTolerance(tolx)
setXTolerance(tolx) == rootfind_setXTolerance(tolx)

\* Mutant: the native status is dropped and 0 is returned.
setVectorField_StatusDropped(pVFObj) ==
    /\ activeField' = IF pVFObj = NULL THEN activeField ELSE pVFObj
    /\ ret' = Return("setVectorField", 0)
    /\ UNCHANGED <<fTolerance, xTolerance, run>>
setVectorField(pVFObj) == rootfind_setVectorField(pVFObj)

\* Mutant: the iteration cap is forwarded off by one.
findRoots_IterOffByOne(startVals, iter) == rootfind_findRoots(startVals, iter + 1)
\* Mutant: the start point is not forwarded (the solve starts at the origin).
findRoots_StartDropped(startVals, iter) ==
    rootfind_findRoots([i \in DOMAIN startVals |-> 0], iter)
\* Mutant: the solve is started from the point the last result ended at.
findRoots_WarmStart(startVals, iter) ==
    rootfind_findRoots(IF ret.kind = "result" /\ Len(ret.x) = Len(startVals)
                       THEN ret.x ELSE startVals, iter)
\* Mutant: findRoots calls the bounded solve, with the unit box as bounds.
findRoots_InUnitBox(startVals, iter) ==
    rootfind_findRootsBounded(startVals, <<[i \in DOMAIN startVals |-> 0],
                                           [i \in DOMAIN startVals |-> 1]>>, iter)
findRoots(startVals, iter) == rootfind_findRoots(startVals, iter)

\* Mutant: the bounds are not forwarded (the unbounded solve is called).
findRootsBounded_IgnoresBounds(startVals, boundVals, iter) ==
    rootfind_findRoots(startVals, iter)
\* Mutant: the bounds are forwarded as (xmax, xmin).
findRootsBounded_SwappedBounds(startVals, boundVals, iter) ==
    rootfind_findRootsBounded(startVals, <<boundVals[2], boundVals[1]>>, iter)
\* Mutant: the bounded solve is started at the lower bound, not at startVals.
findRootsBounded_StartsAtLowerBound(startVals, boundVals, iter) ==
    rootfind_findRootsBounded(boundVals[1], boundVals, iter)
findRootsBounded(startVals, boundVals, iter) ==
    rootfind_findRootsBounded(startVals, boundVals, iter)

\* Mutant: destroy returns without calling the native destroy.
destroy_NotForwarded == ret' = Return("destroy", 0) /\ UNCHANGED <<session, run>>
destroy == rootfind_destroy

---------------------------------------------------------------------------
(* klampt.model.robotinfo: Python values, paths and files *)

\* A Python value: None, a str, a list or a dict (its items flattened to
\* key, value, key, value, ...).
PyNone == [type |-> "NoneType", items |-> <<>>]
PyStr(s) == [type |-> "str", items |-> <<s>>]
PyList(items) == [type |-> "list", items |-> items]
PyDict(items) == [type |-> "dict", items |-> items]
\* len(val); -1 stands for the TypeError of len(None).
PyLen(val) ==
    CASE val.type = "list" -> Len(val.items)
      [] val.type = "dict" -> Len(val.items) \div 2
      [] val.type = "str" -> Len(val.items)
      [] OTHER -> -1

\* A path is the sequence of its components; an absolute one starts with "/".
\* Relative paths are relative to the working directory Cwd.
Cwd == <<"/", "cwd">>
startswith_slash(fn) == Len(fn) > 0 /\ fn[1] = "/"
os_path_join(path, fn) == IF startswith_slash(fn) THEN fn ELSE path \o fn
os_path_split(fn) == <<SubSeq(fn, 1, Len(fn) - 1), fn[Len(fn)]>>
os_path_abspath(fn) == IF startswith_slash(fn) THEN fn ELSE Cwd \o fn
\* The file a path names: a path under Cwd names the same file as the
\* relative one.
Resolve(fn) ==
    IF Len(fn) > Len(Cwd) /\ SubSeq(fn, 1, Len(Cwd)) = Cwd
    THEN SubSeq(fn, Len(Cwd) + 1, Len(fn)) ELSE fn

\* The attributes of a RobotInfo that save and load handle.
SAVED_IF_NOT_NONE == <<"name", "version", "serial", "description", "modelFile", "baseType",
                       "controllerFile", "simulatorFile", "resourceDir", "filePaths">>
SAVED_IF_NOT_EMPTY == <<"calibrationFiles", "preferences", "controllerArgs", "parts",
                        "properties">>
REQUIRED == <<"name", "modelFile">>
OPTIONAL == <<"version", "serial", "description", "parts", "baseType", "endEffectors",
              "grippers", "properties", "controllerFile", "controllerArgs", "simulatorFile",
              "calibrationFiles", "resourceDir", "filePaths", "preferences">>
Range(seq) == {seq[i] : i \in DOMAIN seq}
Attrs == Range(REQUIRED) \cup Range(OPTIONAL)

\* What a file holds: nothing (no such file), a robot model, a JSON object
\* written by save (the attributes it has, with their values), or a kinematic
\* calibration. disk holds the files that exist.
NoJson == [a \in {} |-> PyNone]
NoFile == [kind |-> "absent", obj |-> NoJson]
RobotFile == [kind |-> "robot", obj |-> NoJson]
CalibFile == [kind |-> "calib", obj |-> NoJson]
JsonFile(jsonobj) == [kind |-> "json", obj |-> jsonobj]
Stat(fn) == IF Resolve(fn) \in DOMAIN disk THEN disk[Resolve(fn)] ELSE NoFile

\* A RobotModel: its identity and its index in the world (-1: not loaded).
NoModel == [id |-> 0, index |-> -1, calibrated |-> FALSE]
\* WorldModel.loadRobot(fn): a new RobotModel, of index -1 when fn does not
\* load.
\* n: the RobotModel objects made before it.
loadRobot(fn, n) ==
    [id |-> n + 1, index |-> IF Stat(fn).kind = "robot" THEN 0 ELSE -1, calibrated |-> FALSE]

---------------------------------------------------------------------------
(* klampt.model.robotinfo: class RobotInfo *)

\* RobotInfo.__init__(name, modelFile) with the other arguments left out.
RobotInfo(name, modelFile) ==
    [a |-> [x \in Attrs |->
              CASE x = "name" -> name
                [] x = "modelFile" -> modelFile
                [] x = "baseType" -> PyStr("fixed")
                [] x \in {"calibrationFiles", "parts", "endEffectors", "grippers",
                          "properties", "preferences"} -> PyDict(<<>>)
                [] x = "filePaths" -> PyList(<<>>)
                [] OTHER -> PyNone],
     robotModel |-> NoModel]

\* RobotInfo(name, modelFile, parts=parts): the constructor with the parts
\* argument. A str is here its characters, an int its value, a tuple its
\* elements; a dict is its items in insertion order, key, value, key, ...
PyChars(chars) == [type |-> "str", items |-> chars]
PyInt(n) == [type |-> "int", items |-> <<n>>]
PyTuple(items) == [type |-> "tuple", items |-> items]
\* hasattr(v, '__iter__')
hasattr_iter(v) == v.type \in {"list", "dict", "str", "tuple"}
\* What iterating over val yields: the elements of a list or tuple, the
\* characters of a str, the keys of a dict.
Iterate(val) ==
    CASE val.type = "str" -> [i \in DOMAIN val.items |-> PyChars(<<val.items[i]>>)]
      [] val.type = "dict" -> [i \in 1..(Len(val.items) \div 2) |-> val.items[2 * i - 1]]
      [] OTHER -> val.items
\* (k, v) = item: TypeError when item is not iterable, ValueError when it
\* does not yield exactly two values.
Unpack2(item) ==
    IF ~hasattr_iter(item) THEN [err |-> "TypeError", k |-> PyNone, v |-> PyNone]
    ELSE IF Len(Iterate(item)) # 2 THEN [err |-> "ValueError", k |-> PyNone, v |-> PyNone]
    ELSE [err |-> "", k |-> Iterate(item)[1], v |-> Iterate(item)[2]]
\* for (k,v) in parts: if not hasattr(v,'__iter__'): raise ValueError(...)
\* The loop is over parts itself, that is, over its keys.
RECURSIVE PartsLoop(_, _)
PartsLoop(elems, i) ==
    IF i > Len(elems) THEN ""
    ELSE LET kv == Unpack2(elems[i]) IN
         IF kv.err # "" THEN kv.err
         ELSE IF ~hasattr_iter(kv.v) THEN "ValueError"
         ELSE PartsLoop(elems, i + 1)
__init__(name, modelFile, parts) ==
    LET self == RobotInfo(name, modelFile) IN
    IF parts.type = "NoneType" THEN [err |-> "", self |-> self]
    ELSE IF parts.type # "dict" THEN [err |-> "ValueError", self |-> self]
    ELSE IF PartsLoop(Iterate(parts), 1) # ""
    THEN [err |-> PartsLoop(Iterate(parts), 1), self |-> self]
    ELSE [err |-> "", self |-> [self EXCEPT !.a["parts"] = parts]]

\* What a call on robotinfo hands back: a RobotInfo (its index in heap), a
\* RobotModel, or an exception.
NoRRet == [op |-> "none", kind |-> "none", err |-> "", obj |-> 0, model |-> NoModel]
RReturn(op) == [NoRRet EXCEPT !.op = op, !.kind = "return"]
RReturnObj(op, obj) == [NoRRet EXCEPT !.op = op, !.kind = "return", !.obj = obj]
RReturnModel(op, model) == [NoRRet EXCEPT !.op = op, !.kind = "return", !.model = model]
RRaise(op, err) == [NoRRet EXCEPT !.op = op, !.kind = "raise", !.err = err]

\* all_robots[name] = obj on a dict.
DictSet(d, k, v) == [x \in DOMAIN d \cup {k} |-> IF x = k THEN v ELSE d[x]]

\* Mutant: a name already registered keeps its RobotInfo (setdefault).
register_KeepsFirst(robotInfo) ==
    all_robots' = IF heap'[robotInfo].a["name"] \in DOMAIN all_robots THEN all_robots
                  ELSE DictSet(all_robots, heap'[robotInfo].a["name"], robotInfo)
\* RobotInfo.register(robotInfo), robotInfo an object of the heap after the step.
register(robotInfo) ==
    all_robots' = DictSet(all_robots, heap'[robotInfo].a["name"], robotInfo)

\* RobotInfo.get(name)
get(name) ==
    /\ rret' = IF name \in DOMAIN all_robots THEN RReturnObj("get", all_robots[name])
               ELSE RRaise("get", "KeyError")
    /\ UNCHANGED <<all_robots, heap, disk, models>>

\* RobotInfo._instance_load(f) on the object self: the exception raised ("" for
\* none) and the object afterwards.
_instance_load(self, f) ==
    LET file == Stat(f)
        jsonobj == file.obj
        missing == {i \in DOMAIN REQUIRED : REQUIRED[i] \notin DOMAIN jsonobj}
    IN  IF file.kind = "absent" THEN [err |-> "IOError", self |-> self]
        ELSE IF file.kind = "robot" THEN [err |-> "ValueError", self |-> self]
        ELSE IF missing # {} THEN [err |-> "IOError", self |-> self]
        ELSE [err |-> "",
              self |-> [self EXCEPT !.a = [x \in Attrs |->
                          IF x \in DOMAIN jsonobj THEN jsonobj[x]
                          ELSE IF x \in {"endEffectors", "grippers"} THEN PyDict(<<>>)
                          ELSE self.a[x]]]]

\* The JSON object save writes for the object self.
ToJson(self) ==
    [x \in {y \in Attrs : IF y \in Range(SAVED_IF_NOT_NONE)
                          THEN self.a[y].type # "NoneType"
                          ELSE PyLen(self.a[y]) > 0} |-> self.a[x]]

\* RobotInfo.save(f) on the object self of the heap: len(val) raises TypeError
\* for an attribute that is None, before the file is opened.
save(self, f) ==
    /\ IF \E i \in DOMAIN SAVED_IF_NOT_EMPTY : heap[self].a[SAVED_IF_NOT_EMPTY[i]].type = "NoneType"
       THEN rret' = RRaise("save", "TypeError") /\ UNCHANGED disk
       ELSE /\ rret' = RReturn("save")
            /\ disk' = DictSet(disk, Resolve(f), JsonFile(ToJson(heap[self])))
    /\ UNCHANGED <<all_robots, heap, models>>

\* The static RobotInfo.load(fn): a new RobotInfo(None) loaded from fn, its
\* modelFile made absolute, the directory of fn added to filePaths, registered.
load(fn) ==
    LET r == _instance_load(RobotInfo(PyNone, PyNone), fn)
        res == r.self
        modelFile == res.a["modelFile"]
        path == os_path_split(fn)[1]
        absFile == IF modelFile.type = "str" /\ ~startswith_slash(modelFile.items[1])
                   THEN PyStr(os_path_abspath(os_path_join(path, modelFile.items[1])))
                   ELSE modelFile
        filePaths == IF path # <<>>
                     THEN PyList(Append(res.a["filePaths"].items, path))
                     ELSE res.a["filePaths"]
    IN  IF r.err # ""
        THEN rret' = RRaise("load", r.err) /\ UNCHANGED <<all_robots, heap, disk, models>>
        ELSE /\ heap' = Append(heap, [res EXCEPT !.a["modelFile"] = absFile,
                                                 !.a["filePaths"] = filePaths])
             /\ register(Len(heap) + 1)
             /\ rret' = RReturnObj("load", Len(heap) + 1)
             /\ UNCHANGED <<disk, models>>

---------------------------------------------------------------------------
(* The caller: any sequence of calls. hist records what the caller did:     *)
(* the last call and its arguments, the last tolerances it set, whether a   *)
(* field is installed (a non-null setVectorField since the start or the     *)
(* last destroy), and what the field's callbacks saw during the last solve. *)
NoSolve == [start |-> <<>>, lo |-> <<>>, hi |-> <<>>, maxIter |-> 0, ftol |-> 0, xtol |-> 0]

HistInit == [call |-> "none", argField |-> NULL, argTol |-> 0,
             installed |-> FALSE, everInstalled |-> FALSE,
             destroys |-> 0,
             lastF |-> DefaultTolerance, lastX |-> DefaultTolerance,
             solve |-> NoSolve, calls |-> 0, sawNaN |-> FALSE]

\* hist after the call `call`, made by the caller itself (no solve in flight).
Called(h, call, argField, argTol) ==
    [h EXCEPT !.call = call, !.argField = argField, !.argTol = argTol,
              !.destroys = 0, !.solve = NoSolve, !.calls = 0, !.sawNaN = FALSE]
Asked(h, call, startVals, lo, hi, iter) ==
    [Called(h, call, NULL, 0) EXCEPT
        !.solve = [start |-> startVals, lo |-> lo, hi |-> hi, maxIter |-> iter,
                   ftol |-> h.lastF, xtol |-> h.lastX]]

RootfindInit ==
    /\ activeField = NULL
    /\ fTolerance = DefaultTolerance
    /\ xTolerance = DefaultTolerance
    /\ run = Idle
    /\ ret = NoRet
    /\ hist = HistInit

\* The tolerance setters are also called from inside a callback of the field,
\* while a solve is in flight: hist then keeps the solve as the last call.
CallSetFTolerance ==
    \E v \in TolValues :
        /\ run.active => Reentrant(run.field)
        /\ setFTolerance(v)
        /\ LET h == IF v >= 0 THEN [hist EXCEPT !.lastF = v] ELSE hist
           IN  hist' = IF run.active THEN h ELSE Called(h, "setFTolerance", NULL, v)

CallSetXTolerance ==
    \E v \in TolValues :
        /\ run.active => Reentrant(run.field)
        /\ setXTolerance(v)
        /\ LET h == IF v >= 0 THEN [hist EXCEPT !.lastX = v] ELSE hist
           IN  hist' = IF run.active THEN h ELSE Called(h, "setXTolerance", NULL, v)

CallSetVectorField ==
    \E f \in Fields \cup {NULL} :
        /\ ~run.active
        /\ setVectorField(f)
        /\ hist' = Called(IF f # NULL
                          THEN [hist EXCEPT !.installed = TRUE, !.everInstalled = TRUE]
                          ELSE hist,
                          "setVectorField", f, 0)

CallDestroy ==
    /\ ~run.active
    /\ destroy
    /\ hist' = [Called(hist, "destroy", NULL, 0) EXCEPT
                   !.installed = FALSE,
                   !.destroys = IF hist.destroys >= 2 THEN 2 ELSE hist.destroys + 1]

CallFindRoots ==
    \E s \in Starts, k \in IterValues :
        /\ ~run.active
        /\ findRoots(s, k)
        /\ hist' = Asked(hist, "findRoots", s, <<>>, <<>>, k)

CallFindRootsBounded ==
    \E s \in Starts, b \in Boxes, k \in IterValues :
        /\ ~run.active
        /\ findRootsBounded(s, b, k)
        /\ hist' = Asked(hist, "findRootsBounded", s, b[1], b[2], k)

Next ==
    \/ CallSetFTolerance /\ UNCHANGED <<robotinfo, gcall>>
    \/ CallSetXTolerance /\ UNCHANGED <<robotinfo, gcall>>
    \/ CallSetVectorField /\ UNCHANGED <<robotinfo, gcall>>
    \/ CallDestroy /\ UNCHANGED <<robotinfo, gcall>>
    \/ CallFindRoots /\ UNCHANGED <<robotinfo, gcall>>
    \/ CallFindRootsBounded /\ UNCHANGED <<robotinfo, gcall>>
    \/ SolveIteration /\ UNCHANGED <<robotinfo, gcall>>

\* The two load callbacks given to _tryload: doload of klamptModel (the
\* RobotModel loaded has index >= 0) and docalib of configureKinematics (the
\* file opens).
loadcallback(callback, fn) ==
    IF callback = "doload" THEN Stat(fn).kind = "robot" ELSE Stat(fn).kind # "absent"

\* The loop of _tryload over filePaths from its i-th entry on: the number of
\* times the callback was called, and whether one call returned True.
RECURSIVE TryPaths(_, _, _, _)
TryPaths(filePaths, i, fn, callback) ==
    IF i > Len(filePaths) THEN [ok |-> FALSE, calls |-> 0]
    ELSE IF loadcallback(callback, fn) THEN [ok |-> TRUE, calls |-> 1]
    ELSE LET rest == TryPaths(filePaths, i + 1, fn, callback)
         IN  [ok |-> rest.ok, calls |-> rest.calls + 1]

\* RobotInfo._tryload(fn, loadcallback) on the object self.
_tryload(self, fn, callback) ==
    IF loadcallback(callback, fn) THEN [ok |-> TRUE, calls |-> 1]
    ELSE IF ~startswith_slash(fn)
    THEN LET rest == TryPaths(self.a["filePaths"].items, 1, fn, callback)
         IN  [ok |-> rest.ok, calls |-> rest.calls + 1]
    ELSE [ok |-> FALSE, calls |-> 1]

\* RobotInfo.configureKinematics(file) on the object self, whose robotModel is
\* loaded: the exception raised ("" for none) and the object afterwards.
configureKinematics(self, file) ==
    IF _tryload(self, file, "docalib").ok
    THEN [err |-> "", self |-> [self EXCEPT !.robotModel.calibrated = TRUE]]
    ELSE [err |-> "IOError", self |-> self]

\* The kinematics entry of calibrationFiles, or <<>>.
KinematicsFile(self) ==
    LET items == self.a["calibrationFiles"].items
        at == {i \in DOMAIN items : i % 2 = 1 /\ items[i] = "kinematics"}
    IN  IF at = {} THEN <<>> ELSE items[(CHOOSE i \in at : TRUE) + 1]

\* Mutant: the model is loaded at every call.
klamptModel_NoCache(self) ==
    LET me == heap[self]
        t == _tryload(me, me.a["modelFile"].items[1], "doload")
        loaded == [me EXCEPT !.robotModel =
                      loadRobot(me.a["modelFile"].items[1], models + t.calls - 1)]
    IN  /\ me.a["modelFile"].type = "str"
        /\ models' = models + t.calls
        /\ heap' = [heap EXCEPT ![self] = loaded]
        /\ rret' = IF t.ok THEN RReturnModel("klamptModel", loaded.robotModel)
                   ELSE RRaise("klamptModel", "IOError")
        /\ UNCHANGED <<all_robots, disk>>

\* RobotInfo.klamptModel() on the object self of the heap. doload stores
\* every RobotModel it loads in self.robotModel, also one that did not load.
klamptModel(self) ==
    LET me == heap[self] IN
    IF me.robotModel.id # 0
    THEN /\ rret' = RReturnModel("klamptModel", me.robotModel)
         /\ UNCHANGED <<all_robots, heap, disk, models>>
    ELSE IF me.a["modelFile"].type = "NoneType"
    THEN /\ rret' = RRaise("klamptModel", "RuntimeError")
         /\ UNCHANGED <<all_robots, heap, disk, models>>
    ELSE LET fn == me.a["modelFile"].items[1]
             t == _tryload(me, fn, "doload")
             loaded == [me EXCEPT !.robotModel = loadRobot(fn, models + t.calls - 1)]
             calib == IF KinematicsFile(me) = <<>> THEN [err |-> "", self |-> loaded]
                      ELSE configureKinematics(loaded, KinematicsFile(me))
         IN  /\ models' = models + t.calls
             /\ UNCHANGED <<all_robots, disk>>
             /\ IF ~t.ok
                THEN heap' = [heap EXCEPT ![self] = loaded]
                     /\ rret' = RRaise("klamptModel", "IOError")
                ELSE /\ heap' = [heap EXCEPT ![self] = calib.self]
                     /\ rret' = IF calib.err # "" THEN RRaise("klamptModel", calib.err)
                                ELSE RReturnModel("klamptModel", calib.self.robotModel)

---------------------------------------------------------------------------
(* klampt.model.robotinfo: class GripperInfo *)

\* A Python list of n items indexed from 0 is a function on 0..n-1; list[k]
\* with k < 0 counts from the end of the list.
PyIndex(list, n, k) == IF k < 0 THEN list[n + k] ELSE list[k]

\* The loop of descendantLinks from link i on. parents[i + 1] is
\* robot.link(i).getParent(), -1 for the root.
RECURSIVE MarkDescendants(_, _, _)
MarkDescendants(descendants, parents, i) ==
    IF i >= Len(parents) THEN descendants
    ELSE MarkDescendants(IF PyIndex(descendants, Len(parents), parents[i + 1])
                         THEN [descendants EXCEPT ![i] = TRUE] ELSE descendants,
                         parents, i + 1)

\* GripperInfo.descendantLinks(robot) for a gripper of base link baseLink on
\* a robot with the link tree parents: the list returned, as a set.
descendantLinks(baseLink, parents) ==
    LET numLinks == Len(parents)
        descendants == MarkDescendants([i \in 0..(numLinks - 1) |-> i = baseLink], parents, 0)
    IN  {i \in 0..(numLinks - 1) : descendants[i]}

\* vectorops on finger configurations
Dot(u, v) == Quot(SumSq(VecAdd(u, v), Len(u)) - SumSq(u, Len(u)) - SumSq(v, Len(v)), 2)
madd(a, b, c) == [i \in DOMAIN a |-> a[i] + c * b[i]]
distanceSquared(a, b) == Norm2(VecSub(a, b))

\* A synergy is callable or a list A of vectors (A[1..k-1] the directions,
\* A[k] the offset). An exception is err # "".
\* GripperInfo.evalSynergy(synergy_name, parameters), given the synergy named.
RECURSIVE AddTerms(_, _, _, _)
AddTerms(res, A, parameters, i) ==
    IF i > Len(parameters) THEN res
    ELSE AddTerms(madd(res, A[i], parameters[i]), A, parameters, i + 1)
evalSynergy(synergy, parameters) ==
    IF synergy.callable THEN [err |-> "", q |-> parameters]
    ELSE IF Len(parameters) + 1 # Len(synergy.A) THEN [err |-> "ValueError", q |-> <<>>]
    ELSE [err |-> "", q |-> AddTerms(synergy.A[Len(synergy.A)], synergy.A, parameters, 1)]

\* np.linalg.lstsq(A, b) for the matrix whose columns are the directions: no
\* direction is an error (the array is not two-dimensional); for one
\* direction a the solution is <a, b> / <a, a>.
lstsq(directions, b) ==
    IF Len(directions) # 1 THEN [err |-> "LinAlgError", p |-> <<>>]
    ELSE [err |-> "", p |-> <<Quot(Dot(directions[1], b), Dot(directions[1], directions[1]))>>]

\* GripperInfo.configToSynergy(qfinger, synergy_name), given the synergy named.
configToSynergy_named(qfinger, synergy) ==
    IF synergy.callable THEN [err |-> "ValueError", p |-> <<>>]
    ELSE lstsq(SubSeq(synergy.A, 1, Len(synergy.A) - 1),
               VecSub(qfinger, synergy.A[Len(synergy.A)]))

\* float('inf') and the comparison d < dclosest
Infinity == [inf |-> TRUE, d |-> 0]
LessThan(d, dclosest) == dclosest.inf \/ d < dclosest.d

\* GripperInfo.configToSynergy(qfinger) with synergy_name None: the loop over
\* self.synergies (a dict, in insertion order) from its i-th entry on.
RECURSIVE ClosestLoop(_, _, _, _)
ClosestLoop(synergies, qfinger, i, best) ==
    IF i > Len(synergies) THEN best
    ELSE LET fit == configToSynergy_named(qfinger, synergies[i])
             ev == evalSynergy(synergies[i], fit.p)
             d == distanceSquared(qfinger, ev.q)
         IN  ClosestLoop(synergies, qfinger, i + 1,
                 IF fit.err = "" /\ ev.err = "" /\ LessThan(d, best.dclosest)
                 THEN [best EXCEPT !.sclosest = synergies[i].name, !.pclosest = fit.p]
                 ELSE best)

configToSynergy(synergies, qfinger) ==
    LET best == ClosestLoop(synergies, qfinger, 1,
                            [sclosest |-> "None", pclosest |-> <<>>, dclosest |-> Infinity])
    IN  <<best.sclosest, best.pclosest>>

---------------------------------------------------------------------------
(* klampt.model.robotinfo: RobotInfo.configureControllerEndEffectors *)

\* RobotInfo.toDriverIndices(items) on a robot whose driver i affects link
\* i + 1 (link 0 is the fixed base and has no driver): the drivers of the
\* links of items that have one, in the order of items.
RECURSIVE toDriverIndices(_)
toDriverIndices(items) ==
    IF items = <<>> THEN <<>>
    ELSE LET v == items[1]
             rest == toDriverIndices(Tail(items))
         IN  IF v >= 1 THEN <<v - 1>> \o rest ELSE rest

\* The loops of configureControllerEndEffectors over controllerParts (from
\* the i-th on) and, for each part, over self.endEffectors (from the j-th on).
\* st: eematches, unmatchedEEs and the exception raised ("" for none).
RECURSIVE MatchLoop(_, _, _, _, _)
MatchLoop(controllerParts, endEffectors, i, j, st) ==
    IF st.err # "" \/ i > Len(controllerParts) THEN st
    ELSE IF j > Len(endEffectors) THEN MatchLoop(controllerParts, endEffectors, i + 1, 1, st)
    ELSE LET part == controllerParts[i]
             ee == endEffectors[j]
         IN  IF part.indices = toDriverIndices(ee.activeLinks)
             THEN IF ee.name \in st.unmatchedEEs
                  THEN MatchLoop(controllerParts, endEffectors, i, j + 1,
                           [st EXCEPT !.eematches = DictSet(@, ee.name, part.name),
                                      !.unmatchedEEs = @ \ {ee.name}])
                  ELSE [st EXCEPT !.eematches = DictSet(@, ee.name, part.name),
                                  !.err = "KeyError"]
             ELSE MatchLoop(controllerParts, endEffectors, i, j + 1, st)

\* RobotInfo.configureControllerEndEffectors(controller): parts are the named
\* parts of the controller, whole the indices of the controller itself.
configureControllerEndEffectors(endEffectors, whole, parts) ==
    MatchLoop(<<[name |-> "None", indices |-> whole]>> \o parts, endEffectors, 1, 1,
              [eematches |-> [k \in {} |-> ""],
               unmatchedEEs |-> {endEffectors[k].name : k \in DOMAIN endEffectors},
               err |-> ""])

---------------------------------------------------------------------------
(* The user of robotinfo: constructs RobotInfo objects, sets their           *)
(* attributes, and calls register, get, load and save in any order. rhist    *)
(* records the last call, which RobotInfo the user registered last under     *)
(* each name, which one was saved last to each file, and, for a load, which  *)
(* one had been saved to the file loaded (0: none). For klamptModel it       *)
(* records per object (km) how often loadRobot was called for it, how often  *)
(* that gave it a loaded model, the first model klamptModel returned and     *)
(* whether the user set robotModel; and for the last call the robotModel     *)
(* before it, the model returned before it, the loadRobot calls it made and  *)
(* the file it was to load.                                                  *)
MaxObjects == 2
MaxPaths == 1
MaxModels == 3
MaxInfos == 1

RelModel == <<"m.rob">>
AbsModel == <<"/", "abs", "m.rob">>
JsonPaths == {<<"r.json">>, <<"dirA", "r.json">>}
Dirs == {<<"dirA">>, <<"dirB">>}
Names == {PyStr("r1"), PyStr("r2"), PyStr("r3")}
Profiles == {"default", "full", "emptyArgs"}

\* The objects a user builds: the constructor, then attribute assignments.
Built(profile) ==
    CASE profile = "default" -> RobotInfo(PyStr("r1"), PyStr(RelModel))
      [] profile = "emptyArgs" ->
            [RobotInfo(PyStr("r1"), PyStr(RelModel)) EXCEPT !.a["controllerArgs"] = PyList(<<>>)]
      [] profile = "full" ->
            [RobotInfo(PyStr("r2"), PyStr(AbsModel)) EXCEPT
                !.a["version"] = PyStr("1.0"),
                !.a["serial"] = PyStr("s1"),
                !.a["description"] = PyStr("arm"),
                !.a["baseType"] = PyStr("floating"),
                !.a["controllerFile"] = PyStr(<<"ctl.py">>),
                !.a["controllerArgs"] = PyList(<<"a">>),
                !.a["simulatorFile"] = PyStr(<<"sim.py">>),
                !.a["resourceDir"] = PyStr(<<"res">>),
                !.a["calibrationFiles"] = PyDict(<<"kinematics", <<"calib.json">>>>),
                !.a["preferences"] = PyDict(<<"grasping", "left">>),
                !.a["parts"] = PyDict(<<"arm", "0">>),
                !.a["properties"] = PyDict(<<"k", "v">>)]

\* At the start the robot file exists in dirA and under /abs, not in the
\* working directory; the calibration file exists in dirA only.
InitialDisk ==
    [fn \in {<<"dirA">> \o RelModel, AbsModel, <<"dirA", "calib.json">>} |->
        IF fn = <<"dirA", "calib.json">> THEN CalibFile ELSE RobotFile]

NoLoads == [loads |-> 0, okLoads |-> 0, returned |-> 0, external |-> FALSE]
RHistInit == [call |-> "none", obj |-> 0, registered |-> [k \in {} |-> 0],
              saved |-> [f \in JsonPaths |-> 0], from |-> 0,
              km |-> [i \in 1..MaxObjects |-> NoLoads],
              before |-> NoModel, returnedBefore |-> 0, loads |-> 0, file |-> <<>>]
RCalled(h, call, obj) ==
    [h EXCEPT !.call = call, !.obj = obj, !.from = 0, !.before = NoModel,
              !.returnedBefore = 0, !.loads = 0, !.file = <<>>]

RobotInfoInit ==
    /\ all_robots = [k \in {} |-> 0]
    /\ heap = <<>>
    /\ disk = InitialDisk
    /\ models = 0
    /\ rret = NoRRet
    /\ rhist = RHistInit


Construct ==
    \E profile \in Profiles :
        /\ Len(heap) < MaxObjects
        /\ heap' = Append(heap, Built(profile))
        /\ rret' = RReturnObj("RobotInfo", Len(heap) + 1)
        /\ rhist' = RCalled(rhist, "RobotInfo", Len(heap) + 1)
        /\ UNCHANGED <<all_robots, disk, models>>

\* info.filePaths.append(dir)
AddFilePath ==
    \E self \in DOMAIN heap, dir \in Dirs :
        /\ Len(heap[self].a["filePaths"].items) < MaxPaths
        /\ heap' = [heap EXCEPT ![self].a["filePaths"] = PyList(Append(@.items, dir))]
        /\ rret' = RReturn("append")
        /\ rhist' = RCalled(rhist, "append", self)
        /\ UNCHANGED <<all_robots, disk, models>>

CallRegister ==
    \E robotInfo \in DOMAIN heap :
        /\ UNCHANGED <<heap, disk, models>>
        /\ register(robotInfo)
        /\ rret' = RReturn("register")
        /\ rhist' = [RCalled(rhist, "register", robotInfo) EXCEPT
                        !.registered = DictSet(@, heap[robotInfo].a["name"], robotInfo)]

CallGet ==
    \E name \in Names :
        /\ get(name)
        /\ rhist' = RCalled(rhist, "get", IF name \in DOMAIN rhist.registered
                                          THEN rhist.registered[name] ELSE 0)

\* The user learns the name of what was loaded from the object returned.
CallLoad ==
    \E fn \in JsonPaths \cup {<<"dirA", "calib.json">>, AbsModel} :
        /\ Len(heap) < MaxObjects
        /\ load(fn)
        /\ rhist' = IF rret'.kind = "return"
                    THEN [RCalled(rhist, "load", rret'.obj) EXCEPT
                            !.registered = DictSet(@, heap'[rret'.obj].a["name"], rret'.obj),
                            !.from = IF fn \in JsonPaths THEN rhist.saved[fn] ELSE 0]
                    ELSE RCalled(rhist, "load", 0)

CallSave ==
    \E self \in DOMAIN heap, f \in JsonPaths :
        /\ save(self, f)
        /\ rhist' = [RCalled(rhist, "save", self) EXCEPT
                        !.saved[f] = IF rret'.kind = "return" THEN self ELSE @]

\* info.robotModel = a RobotModel the user loaded, before any klamptModel call
SetRobotModel ==
    \E self \in DOMAIN heap :
        /\ heap[self].robotModel.id = 0 /\ rhist.km[self].loads = 0
        /\ heap' = [heap EXCEPT ![self].robotModel =
                       [id |-> -self, index |-> 0, calibrated |-> FALSE]]
        /\ rret' = RReturn("robotModel")
        /\ rhist' = [RCalled(rhist, "robotModel", self) EXCEPT !.km[self].external = TRUE]
        /\ UNCHANGED <<all_robots, disk, models>>

CallKlamptModel ==
    \E self \in DOMAIN heap :
        /\ models < MaxModels
        /\ klamptModel(self)
        /\ rhist' = [RCalled(rhist, "klamptModel", self) EXCEPT
                        !.before = heap[self].robotModel,
                        !.returnedBefore = rhist.km[self].returned,
                        !.loads = models' - models,
                        !.file = heap[self].a["modelFile"].items[1],
                        !.km[self] = [@ EXCEPT
                            !.loads = @ + models' - models,
                            !.okLoads = IF models' > models /\ heap'[self].robotModel.index >= 0
                                        THEN @ + 1 ELSE @,
                            !.returned = IF @ = 0 /\ rret'.kind = "return"
                                         THEN rret'.model.id ELSE @]]

\* info.configureKinematics(file) on an object whose robotModel is loaded
CallConfigureKinematics ==
    \E self \in DOMAIN heap, file \in {<<"calib.json">>, <<"dirA", "calib.json">>} :
        /\ heap[self].robotModel.index >= 0
        /\ LET r == configureKinematics(heap[self], file)
           IN  /\ heap' = [heap EXCEPT ![self] = r.self]
               /\ rret' = IF r.err # "" THEN RRaise("configureKinematics", r.err)
                          ELSE RReturn("configureKinematics")
        /\ rhist' = [RCalled(rhist, "configureKinematics", self) EXCEPT !.file = file]
        /\ UNCHANGED <<all_robots, disk, models>>

NextRobotInfo ==
    \/ Construct /\ UNCHANGED <<rootfind, gcall>>
    \/ CallRegister /\ UNCHANGED <<rootfind, gcall>>
    \/ CallGet /\ UNCHANGED <<rootfind, gcall>>
    \/ CallLoad /\ UNCHANGED <<rootfind, gcall>>
    \/ CallSave /\ UNCHANGED <<rootfind, gcall>>

NextKlamptModel ==
    \/ Construct /\ Len(heap) < MaxInfos /\ UNCHANGED <<rootfind, gcall>>
    \/ AddFilePath /\ UNCHANGED <<rootfind, gcall>>
    \/ SetRobotModel /\ UNCHANGED <<rootfind, gcall>>
    \/ CallKlamptModel /\ UNCHANGED <<rootfind, gcall>>
    \/ CallConfigureKinematics /\ UNCHANGED <<rootfind, gcall>>

---------------------------------------------------------------------------
(* The caller of the pure methods of robotinfo: gcall holds the last call,   *)
(* its inputs and its result.                                                *)
MaxLinks == 5

\* The link trees of a robot of n links: link 0 is the root, and the parent
\* of every other link has a smaller index.
LinkTrees(n) ==
    {parents \in [1..n -> (-1)..(n - 2)] :
        /\ parents[1] = -1
        /\ \A i \in 2..n : parents[i] \in 0..(i - 2)}

PureMethodsInit == gcall = [op |-> "none"]

CallDescendantLinks ==
    \E n \in 1..MaxLinks :
        \E parents \in LinkTrees(n), baseLink \in 0..(n - 1) :
            gcall' = [op |-> "descendantLinks", parents |-> parents, baseLink |-> baseLink,
                      links |-> descendantLinks(baseLink, parents)]

MaxSynergies == 2

\* The synergies of a gripper with two finger joints: three lines, a
\* constant configuration (no parameter) and a callable.
Synergies ==
    {[name |-> "x", callable |-> FALSE, A |-> <<<<1, 0>>, <<0, 0>>>>],
     [name |-> "y", callable |-> FALSE, A |-> <<<<0, 1>>, <<0, 0>>>>],
     [name |-> "high", callable |-> FALSE, A |-> <<<<1, 0>>, <<0, 2>>>>],
     [name |-> "const", callable |-> FALSE, A |-> <<<<1, 1>>>>],
     [name |-> "fn", callable |-> TRUE, A |-> <<>>]}
\* self.synergies: distinct synergies in their insertion order
SynergyDicts ==
    UNION {{d \in [1..n -> Synergies] : \A i, j \in 1..n : i # j => d[i] # d[j]} :
              n \in 0..MaxSynergies}
FingerConfigs == {<<a, b>> : a \in 0..2, b \in 0..2}

CallConfigToSynergy ==
    \E synergies \in SynergyDicts, qfinger \in FingerConfigs :
        gcall' = [op |-> "configToSynergy", synergies |-> synergies, qfinger |-> qfinger,
                  closest |-> configToSynergy(synergies, qfinger)]

MaxParts == 2
MaxEndEffectors == 2

\* A controller of the two drivers of the robot, and the named parts it may
\* have; the end effectors of the RobotInfo by their active links.
WholeController == <<0, 1>>
ControllerParts ==
    {[name |-> "left", indices |-> <<0>>], [name |-> "right", indices |-> <<1>>],
     [name |-> "arm", indices |-> <<0, 1>>]}
PartLists ==
    UNION {{d \in [1..n -> ControllerParts] : \A i, j \in 1..n : i # j => d[i] # d[j]} :
              n \in 0..MaxParts}
ActiveLinks == {<<0>>, <<1>>, <<2>>, <<1, 2>>, <<0, 1, 2>>}
EndEffectorDicts ==
    UNION {{[k \in 1..n |-> [name |-> IF k = 1 THEN "ee1" ELSE IF k = 2 THEN "ee2" ELSE "ee3",
                            activeLinks |-> links[k]]] : links \in [1..n -> ActiveLinks]} :
              n \in 0..MaxEndEffectors}

CallConfigureControllerEndEffectors ==
    \E endEffectors \in EndEffectorDicts, parts \in PartLists :
        gcall' = [op |-> "configureControllerEndEffectors",
                  endEffectors |-> endEffectors, controllerParts |-> parts,
                  out |-> configureControllerEndEffectors(endEffectors, WholeController, parts)]

NextPureMethods ==
    \/ CallDescendantLinks /\ UNCHANGED <<rootfind, robotinfo>>
    \/ CallConfigToSynergy /\ UNCHANGED <<rootfind, robotinfo>>
    \/ CallConfigureControllerEndEffectors /\ UNCHANGED <<rootfind, robotinfo>>

---------------------------------------------------------------------------
(* The caller of the constructor RobotInfo(name, modelFile, parts=p): p is   *)
(* None, something that is not a dict, or a dict of at most MaxPartNames     *)
(* entries whose keys are part names of up to MaxNameLen characters (or an   *)
(* int, or a tuple) and whose values are link lists (or an int).             *)
MaxPartNames == 2
MaxNameLen == 3

PartNames == {PyChars([i \in 1..n |-> "a"]) : n \in 0..MaxNameLen}
PartKeys == PartNames \cup {PyInt(7), PyTuple(<<PyChars(<<"a">>), PyInt(5)>>)}
PartValues == {PyList(<<>>), PyList(<<PyInt(0), PyInt(1)>>), PyInt(5)}
PartsDicts ==
    {PyDict(<<>>)}
      \cup {PyDict(<<k, v>>) : k \in PartKeys, v \in PartValues}
      \cup (IF MaxPartNames < 2 THEN {}
            ELSE UNION {{PyDict(<<k1, v1, k2, v2>>) : k2 \in PartKeys \ {k1},
                                                      v2 \in PartValues} :
                          k1 \in PartKeys, v1 \in PartValues})
PartsArgs ==
    {PyNone, PyList(<<PyInt(0)>>), PyChars(<<"a", "a">>), PyInt(5)} \cup PartsDicts

CallRobotInfo ==
    \E p \in PartsArgs :
        gcall' = [op |-> "RobotInfo", parts |-> p,
                  out |-> __init__(PyStr("r1"), PyStr(RelModel), p)]

NextConstructor ==
    CallRobotInfo /\ UNCHANGED <<rootfind, robotinfo>>

---------------------------------------------------------------------------
(* The specifications: the calls on rootfind; the registry and the files of *)
(* RobotInfo; the robot model of a RobotInfo; the pure methods; the         *)
(* constructor of RobotInfo                                                 *)
Init == RootfindInit /\ RobotInfoInit /\ PureMethodsInit
Spec == Init /\ [][Next]_vars
SpecRobotInfo == Init /\ [][NextRobotInfo]_vars
SpecKlamptModel == Init /\ [][NextKlamptModel]_vars
SpecPureMethods == Init /\ [][NextPureMethods]_vars
SpecConstructor == Init /\ [][NextConstructor]_vars

---------------------------------------------------------------------------
(* Claims *)

IsSolve(call) == call \in {"findRoots", "findRootsBounded"}
NoFieldError == ret.kind = "raise" /\ ret.err = "no vector field set"

\* C1: after any sequence of calls, a field is active exactly when a non-null
\* setVectorField was made since the start or the last destroy, and findRoots
\* and findRootsBounded fail with "no vector field set" exactly when none is.
C1_NoFieldExactlyWhenNoneInstalled ==
    /\ (activeField = NULL) <=> ~hist.installed
    /\ IsSolve(hist.call) => (NoFieldError <=> ~hist.installed)

\* C1 witness: a solve call fails for want of a field after one had been
\* installed and destroyed.
C1_Witness ==
    /\ hist.call = "findRootsBounded" /\ NoFieldError
    /\ hist.everInstalled /\ ~hist.installed

\* C2: setVectorField(NULL) returns 0 and leaves the session as it was;
\* setVectorField(f), f not null, returns 1, makes f the active field in place
\* of any other and leaves the tolerances alone. The session holds one field
\* reference or none.
C2_SetVectorField ==
    /\ [](activeField \in Fields \cup {NULL})
    /\ [][hist'.call = "setVectorField" =>
            /\ ret'.kind = "return"
            /\ IF hist'.argField = NULL
               THEN ret'.value = 0 /\ session' = session
               ELSE /\ ret'.value = 1
                    /\ activeField' = hist'.argField
                    /\ fTolerance' = fTolerance /\ xTolerance' = xTolerance]_vars

\* C2 witness: a null field was refused while a field was active and the
\* tolerances were not the defaults; the field stayed.
C2_Witness ==
    /\ hist.call = "setVectorField" /\ hist.argField = NULL /\ ret.value = 0
    /\ activeField = "shift" /\ fTolerance = MaxTol /\ xTolerance = 0

C4_DestroyIdempotent ==
    [][hist'.call = "destroy" =>
          /\ ret'.kind = "return"
          /\ hist.call = "destroy" => <<session, run, ret>>' = <<session, run, ret>>]_vars

\* C4 witness: destroy twice in a row with no field ever set.
C4_Witness ==
    /\ hist.call = "destroy" /\ hist.destroys = 2
    /\ ~hist.everInstalled /\ ret.kind = "return"

\* C5: a tolerance setter given v < 0 fails with the input-validation error
\* and changes nothing of the session; given v >= 0 it replaces its own
\* tolerance only.
C5_ToleranceSetters ==
    [][/\ hist'.call = "setFTolerance" =>
            IF hist'.argTol < 0
            THEN /\ ret'.kind = "raise" /\ ret'.err = "invalid tolerance"
                 /\ session' = session
            ELSE /\ ret'.kind = "return" /\ fTolerance' = hist'.argTol
                 /\ xTolerance' = xTolerance /\ activeField' = activeField
       /\ hist'.call = "setXTolerance" =>
            IF hist'.argTol < 0
            THEN /\ ret'.kind = "raise" /\ ret'.err = "invalid tolerance"
                 /\ session' = session
            ELSE /\ ret'.kind = "return" /\ xTolerance' = hist'.argTol
                 /\ fTolerance' = fTolerance /\ activeField' = activeField]_vars

\* C5 witness: setXTolerance(-1) was refused on a session whose tolerances
\* had been set to other values than the defaults.
C5_Witness ==
    /\ hist.call = "setXTolerance" /\ hist.argTol < 0 /\ ret.kind = "raise"
    /\ fTolerance = 0 /\ xTolerance = MaxTol /\ activeField # NULL

Statuses == {ConvergedX, ConvergedF, Diverged, Degenerate, MaxIterations, NumericalError}

\* C6: a result of findRoots or findRootsBounded is (status, x, n) with status
\* one of the six codes 0..5, x as long as the start vector and n >= 0; it is
\* the result of the call that was made, and code 1 means what it says: the
\* residual norm at x is below the f-tolerance of the solve.
C6_ResultShape ==
    ret.kind = "result" =>
        /\ IsSolve(hist.call) /\ ret.op = hist.call
        /\ ret.status \in Statuses /\ Statuses = 0..5
        /\ Len(ret.x) = Len(hist.solve.start)
        /\ ret.n >= 0
        /\ ret.status = 1 =>
              Norm2(evaluate(activeField, ret.x).v) < hist.solve.ftol * hist.solve.ftol

\* C6 witness: a solve returned the last code, NumericalError, with its point
\* and an iteration count of at least one.
C6_Witness ==
    /\ ret.kind = "result" /\ ret.status = NumericalError /\ ret.n >= 1
    /\ Len(ret.x) = Len(hist.solve.start)

\* C7: a solve never uses more than maxIterations iterations: each step of
\* the solve in flight ends it or raises the iteration count by one, the count
\* stays below the cap while the solve runs, and the result has n <= maxIterations,
\* with status MaxIterations exactly when the count reached the cap with no
\* other criterion having fired (only ConvergedX can fire in that iteration).
C7_IterationsBounded ==
    /\ [](IsSolve(hist.call) =>
            /\ run.active => run.iters < hist.solve.maxIter
            /\ ret.kind = "result" =>
                  /\ ret.n <= hist.solve.maxIter
                  /\ ret.status = MaxIterations => ret.n = hist.solve.maxIter
                  /\ ret.n = hist.solve.maxIter => ret.status \in {MaxIterations, ConvergedX})
    /\ [][(run.active /\ run' # run) =>
             \/ ~run'.active /\ ret'.kind = "result"
             \/ run'.active /\ run'.iters = run.iters + 1]_vars

\* C7 witness: a solve used up its MaxIter iterations and returned MaxIterations.
C7_Witness ==
    /\ ret.kind = "result" /\ ret.status = MaxIterations
    /\ ret.n = MaxIter /\ hist.solve.maxIter = MaxIter

WellFormedBounded ==
    /\ hist.call = "findRootsBounded"
    /\ Len(hist.solve.lo) = Len(hist.solve.start)
    /\ Len(hist.solve.hi) = Len(hist.solve.start)

\* C8: in findRootsBounded with lower <= upper, every iterate adopted and the
\* point returned lie in the box, whatever the status, and a start point
\* outside the box is no error.
C8_StaysInBox ==
    (WellFormedBounded /\ ValidBounds(hist.solve.lo, hist.solve.hi)) =>
        /\ run.active => InBox(run.x, hist.solve.lo, hist.solve.hi)
        /\ ret.kind = "result" => InBox(ret.x, hist.solve.lo, hist.solve.hi)
        /\ (hist.installed /\ Len(hist.solve.start) = FieldDim(activeField)) =>
               ret.kind \in {"pending", "result"}

\* C8 witness: a bounded solve started outside its box and ended, after at
\* least one iteration, on the boundary of the box.
C8_Witness ==
    /\ WellFormedBounded /\ ValidBounds(hist.solve.lo, hist.solve.hi)
    /\ ~InBox(hist.solve.start, hist.solve.lo, hist.solve.hi)
    /\ ret.kind = "result" /\ ret.n >= 1 /\ ret.x = hist.solve.hi

\* C9: findRootsBounded with some lower[i] > upper[i] raises: no solve is
\* started, no callback of the field is made and no status code is returned.
C9_InvalidBoundsRaise ==
    (WellFormedBounded /\ ~ValidBounds(hist.solve.lo, hist.solve.hi)) =>
        /\ ret.kind = "raise" /\ ~run.active /\ hist.calls = 0
        /\ (hist.installed /\ Len(hist.solve.start) = FieldDim(activeField)) =>
               ret.err = "invalid bounds"

\* C9 witness: a call with lower > upper on a session with a field of the
\* right dimension was refused.
C9_Witness ==
    /\ WellFormedBounded /\ ret.kind = "raise" /\ ret.err = "invalid bounds"
    /\ hist.installed /\ hist.calls = 0

\* C10: once an evaluation of the field was not finite, the solve is over
\* and its result is NumericalError: it is not raised, it is no other status,
\* and no further iteration is made.
C10_NaNGivesNumericalError ==
    hist.sawNaN =>
        /\ ~run.active
        /\ ret.kind = "result" /\ ret.status = NumericalError

\* C10 witness: the field was not finite at a trial point of a later
\* iteration (the backtracking of the second iteration, not the start point).
C10_Witness ==
    /\ hist.sawNaN /\ ret.kind = "result" /\ ret.n >= 1
    /\ evaluate(activeField, ret.x).nan = FALSE

\* The result of the solve that was asked for, computed from the active field,
\* the arguments of the call and the tolerances set before it, and nothing else.
SolveOf(h) ==
    LET bounded == h.call = "findRootsBounded"
        x0 == IF bounded THEN Clamp(h.solve.start, h.solve.lo, h.solve.hi) ELSE h.solve.start
    IN  Solve(activeField, x0, bounded, h.solve.lo, h.solve.hi,
              h.solve.ftol, h.solve.xtol, 0, h.solve.maxIter, -1, 0)

\* C11: a solve call, whatever its outcome (raised, still running, ended with
\* any status), leaves the active field and both tolerances as they were, in
\* the step that makes the call and in every iteration of the solve; and the
\* result is not kept in the session: it is the function SolveOf of the field,
\* the arguments and the tolerances, whatever solves were made before.
C11_SolveLeavesSession ==
    /\ [][((~run.active /\ IsSolve(hist'.call)) \/ run' # run) => session' = session]_vars
    /\ [](ret.kind = "result" =>
            /\ ret.status = SolveOf(hist).status
            /\ ret.x = SolveOf(hist).x
            /\ ret.n = SolveOf(hist).n)

\* C11 witness: a solve that ended with a point other than its start, on a
\* session whose tolerances were not the defaults; the session is as it was.
C11_Witness ==
    /\ ret.kind = "result" /\ hist.call = "findRoots" /\ ret.x # hist.solve.start
    /\ fTolerance = MaxTol /\ xTolerance = 0 /\ activeField = "affine2"

AffineSolve ==
    /\ ret.kind = "result" /\ hist.call = "findRoots"
    /\ Affine(activeField) /\ hist.solve.start # Root(activeField)
Converged == ret.status \in {ConvergedX, ConvergedF}

\* C12 as stated: on an affine field, findRoots from any start point other
\* than the root returns a convergence status, x at the root and 1 iteration.
C12_AffineExactlyOneIteration ==
    AffineSolve => Converged /\ ret.x = Root(activeField) /\ ret.n = 1

\* C12 amended: on an affine field, findRoots from a start point other than
\* the root whose residual norm is not already below fTolerance takes the
\* exact Newton step in its first iteration: x is the root and 1 iteration
\* was used. The status is a convergence status when fTolerance > 0 and
\* maxIterations >= 2; it is MaxIterations only with maxIterations = 1 and
\* Diverged only with fTolerance = 0 (the residual 0 is not below 0).
C12_AffineOneNewtonStep ==
    (AffineSolve /\ Norm2(evaluate(activeField, hist.solve.start).v)
                       >= hist.solve.ftol * hist.solve.ftol) =>
        /\ ret.x = Root(activeField) /\ ret.n = 1
        /\ ret.status \in {ConvergedX, ConvergedF, MaxIterations, Diverged}
        /\ (hist.solve.ftol > 0 /\ hist.solve.maxIter >= 2) => Converged
        /\ ret.status = MaxIterations => hist.solve.maxIter = 1
        /\ ret.status = Diverged => hist.solve.ftol = 0

\* C12 witness: the two-dimensional affine field solved in one iteration
\* from a start point away from the root, with status ConvergedF.
C12_Witness ==
    /\ AffineSolve /\ activeField = "affine2" /\ hist.solve.start = <<MaxStart, 1>>
    /\ ret.status = ConvergedF /\ ret.n = 1 /\ ret.x = <<2, 1>>

\* C13: the registry maps each name to the RobotInfo the user registered last
\* under it (by register or by a load that returned); after load(fn) returned
\* res, the registry holds res under res.name; get(name) returns the object
\* registered last under name and raises KeyError for a name never registered.
C13_RegistryHoldsLastRegistered ==
    /\ DOMAIN all_robots = DOMAIN rhist.registered
    /\ \A name \in DOMAIN all_robots : all_robots[name] = rhist.registered[name]
    /\ (rhist.call = "load" /\ rret.kind = "return") =>
           /\ heap[rret.obj].a["name"] \in DOMAIN all_robots
           /\ all_robots[heap[rret.obj].a["name"]] = rret.obj
    /\ rhist.call = "get" =>
           IF rhist.obj = 0 THEN rret.kind = "raise" /\ rret.err = "KeyError"
           ELSE rret.kind = "return" /\ rret.obj = rhist.obj

\* C13 witness: get returned the RobotInfo that load had made and registered,
\* while an older RobotInfo of the same name exists.
C13_Witness ==
    /\ rhist.call = "get" /\ rret.kind = "return" /\ rret.obj = 2
    /\ heap[1].a["name"] = heap[2].a["name"]
    /\ startswith_slash(heap[2].a["modelFile"].items[1])
    /\ ~startswith_slash(heap[1].a["modelFile"].items[1])

\* The attributes the round trip is about.
RoundTrip == {"name", "version", "serial", "description", "baseType", "parts", "properties",
              "controllerFile", "controllerArgs", "simulatorFile", "calibrationFiles",
              "resourceDir", "preferences"}

\* C14: save succeeds for every RobotInfo built from a name and a modelFile,
\* also with every optional attribute at its default, and the RobotInfo that
\* load makes from the saved file has the same name, version, serial,
\* description, baseType, parts, properties, controllerFile, controllerArgs,
\* simulatorFile, calibrationFiles, resourceDir and preferences.
C14_SaveLoadRoundTrip ==
    /\ rhist.call = "save" => rret.kind = "return"
    /\ (rhist.call = "load" /\ rret.kind = "return" /\ rhist.from # 0) =>
           \A x \in RoundTrip : heap[rret.obj].a[x] = heap[rhist.from].a[x]

\* C15: klamptModel caches its result. For each RobotInfo at most one call of
\* loadRobot gave it a loaded model; a call made after klamptModel has
\* returned a model returns that same model and calls loadRobot no more; and
\* for a RobotInfo whose robotModel the user set before the first call,
\* loadRobot is never called and klamptModel returns the model set.
C15_KlamptModelCaches ==
    /\ \A self \in DOMAIN heap :
          /\ rhist.km[self].okLoads <= 1
          /\ rhist.km[self].external => rhist.km[self].loads = 0
    /\ (rhist.call = "klamptModel" /\ rhist.returnedBefore # 0) =>
          /\ rret.kind = "return" /\ rret.model.id = rhist.returnedBefore
          /\ rhist.loads = 0
    /\ (rhist.call = "klamptModel" /\ rhist.km[rhist.obj].external) =>
          /\ rret.kind = "return" /\ rret.model = rhist.before
          /\ rhist.loads = 0

\* C15 witness: the second call of klamptModel on a RobotInfo returned the
\* model that the first call had loaded from the model file.
C15_Witness ==
    /\ rhist.call = "klamptModel" /\ rhist.returnedBefore # 0 /\ rhist.loads = 0
    /\ rret.kind = "return" /\ rret.model.id = rhist.returnedBefore
    /\ rret.model.index >= 0 /\ rhist.km[rhist.obj].okLoads = 1
    /\ ~rhist.km[rhist.obj].external

\* Some directory of filePaths holds a file fn that the callback loads.
FoundOnFilePaths(self, fn, callback) ==
    \E i \in DOMAIN heap[self].a["filePaths"].items :
        loadcallback(callback, os_path_join(heap[self].a["filePaths"].items[i], fn))

\* C16: when a relative file name does not load as given and the file is in
\* one of the directories of filePaths, klamptModel loads the robot model and
\* configureKinematics loads the calibration from there.
C16_FilePathsAreSearched ==
    /\ (/\ rhist.call = "klamptModel" /\ rhist.before.id = 0
        /\ ~startswith_slash(rhist.file) /\ ~loadcallback("doload", rhist.file)
        /\ FoundOnFilePaths(rhist.obj, rhist.file, "doload")) =>
           heap[rhist.obj].robotModel.index >= 0 /\ rret.err # "IOError"
    /\ (/\ rhist.call = "configureKinematics"
        /\ ~startswith_slash(rhist.file) /\ ~loadcallback("docalib", rhist.file)
        /\ FoundOnFilePaths(rhist.obj, rhist.file, "docalib")) =>
           rret.kind = "return"

\* Link i is the base link or has it among its ancestors.
RECURSIVE IsUnder(_, _, _)
IsUnder(i, baseLink, parents) ==
    i >= 0 /\ (i = baseLink \/ IsUnder(parents[i + 1], baseLink, parents))

\* C17: for every link tree whose parents have smaller indices and every base
\* link, the last-indexed one included, descendantLinks returns exactly the
\* links that are the base link or have it among their ancestors.
C17_DescendantLinks ==
    gcall.op = "descendantLinks" =>
        gcall.links = {i \in 0..(Len(gcall.parents) - 1) :
                          IsUnder(i, gcall.baseLink, gcall.parents)}

\* The synergies whose fit does not fail, with their fitted parameters and
\* the squared distance of their reconstruction to qfinger.
Fits(synergies, qfinger) ==
    {[name |-> synergies[i].name,
      p |-> configToSynergy_named(qfinger, synergies[i]).p,
      d |-> distanceSquared(qfinger,
                evalSynergy(synergies[i], configToSynergy_named(qfinger, synergies[i]).p).q)] :
        i \in {j \in DOMAIN synergies : configToSynergy_named(qfinger, synergies[j]).err = ""}}

\* C18: configToSynergy(qfinger) with no synergy named returns, among the
\* synergies whose fit does not fail, a (name, parameters) whose
\* reconstruction is at the smallest squared distance to qfinger, whatever the
\* order of the synergies; (None, None) when no fit succeeds.
C18_ClosestSynergy ==
    gcall.op = "configToSynergy" =>
        LET fits == Fits(gcall.synergies, gcall.qfinger) IN
        IF fits = {} THEN gcall.closest = <<"None", <<>>>>
        ELSE \E best \in fits :
                /\ gcall.closest = <<best.name, best.p>>
                /\ \A other \in fits : best.d <= other.d

\* The indices of the controller part named part ("None": the controller).
IndicesOf(part, parts) ==
    IF part = "None" THEN WholeController
    ELSE parts[CHOOSE k \in DOMAIN parts : parts[k].name = part].indices

\* C19: configureControllerEndEffectors completes, also when the drivers of
\* an end effector are those of more than one controller part, and returns
\* (matches, unmatched) that partition the end effectors: each is a key of
\* matches, mapped to a part whose indices are its active drivers, or is in
\* unmatched, and never both.
C19_EndEffectorsPartitioned ==
    gcall.op = "configureControllerEndEffectors" =>
        /\ gcall.out.err = ""
        /\ \A k \in DOMAIN gcall.endEffectors :
              LET ee == gcall.endEffectors[k] IN
              /\ (ee.name \in DOMAIN gcall.out.eematches) # (ee.name \in gcall.out.unmatchedEEs)
              /\ ee.name \in DOMAIN gcall.out.eematches =>
                    /\ gcall.out.eematches[ee.name] \in
                          {"None"} \cup {gcall.controllerParts[i].name : i \in DOMAIN gcall.controllerParts}
                    /\ IndicesOf(gcall.out.eematches[ee.name], gcall.controllerParts)
                          = toDriverIndices(ee.activeLinks)

\* C20: a solve uses the tolerances the session holds when the solve call
\* starts: the call takes the values last set, a setter called while the solve
\* is in flight (from the field's evaluate callback) changes the session and
\* neither the criteria nor the progress of that solve, and the values it set
\* are the ones the next solve call takes.
C20_TolerancesReadAtSolveStart ==
    /\ [](run.active => run.ftol = hist.solve.ftol /\ run.xtol = hist.solve.xtol)
    /\ [][(run.active /\ session' # session) =>
             /\ run' = run /\ ret' = ret /\ hist'.solve = hist.solve
             /\ fTolerance' = hist'.lastF /\ xTolerance' = hist'.lastX]_vars
    /\ [][(~run.active /\ run'.active) =>
             run'.ftol = hist.lastF /\ run'.xtol = hist.lastX]_vars

\* C20 witness: a solve ended ConvergedF under the f-tolerance of its start
\* although the callback had meanwhile set a tolerance the residual at the
\* returned point does not meet.
C20_Witness ==
    /\ ret.kind = "result" /\ ret.status = ConvergedF /\ ret.n >= 1
    /\ fTolerance # hist.solve.ftol
    /\ Norm2(evaluate(activeField, ret.x).v) >= fTolerance * fTolerance

\* A step of the solve in flight is one iteration of the core, made at the
\* current point run.x with the tolerances of the solve.
IterationStep == run.active /\ run' # run
ResidualBelowF ==
    LET e == evaluate(run.field, run.x)
    IN  ~e.nan /\ Norm2(e.v) < run.ftol * run.ftol
\* With the f-tolerance check out of the way (nothing is below 0), the
\* iteration at x would end the solve with ConvergedX.
XWouldFire(f, x, xtol) ==
    LET it == Iteration(f, x, FALSE, <<>>, <<>>, 0, xtol, -1, 0)
    IN  it.done /\ it.status = ConvergedX

\* C21: in every iteration the f-tolerance check comes first: when the
\* residual norm at the current point is below fTolerance the solve returns
\* ConvergedF at that point, with the iterations made so far, also when the
\* x-tolerance check of the same iteration would fire; and an iteration that
\* returns ConvergedX is one whose residual was not below fTolerance.
C21_FCheckPrecedesXCheck ==
    [][IterationStep =>
          /\ ResidualBelowF => ret' = Result(run.op, ConvergedF, run.x, run.iters)
          /\ (ret'.kind = "result" /\ ret'.status = ConvergedX) => ~ResidualBelowF
          /\ (ResidualBelowF /\ XWouldFire(run.field, run.x, run.xtol)) =>
                 ret'.status = ConvergedF]_vars

\* C21 witness: an unbounded solve returned ConvergedF at a point that is not
\* a root and where the x-tolerance check of the same iteration would have
\* fired too.
C21_Witness ==
    /\ ret.kind = "result" /\ ret.status = ConvergedF
    /\ hist.call = "findRoots"
    /\ Norm2(evaluate(activeField, ret.x).v) > 0
    /\ XWouldFire(activeField, ret.x, hist.solve.xtol)

\* The residual norm (squared) of the field of the solve in flight at x; -1
\* when the field is not finite there.
Residual2(x) ==
    LET e == evaluate(run.field, x) IN IF e.nan THEN -1 ELSE Norm2(e.v)
\* The point the iteration hands on: to the next iteration, or to the caller.
HandedOn == IF run'.active THEN run'.x ELSE ret'.x
\* The Newton step at the current point, and the step after k halvings.
NewtonStep ==
    LET e == evaluate(run.field, run.x)
    IN  LinearSolve(ObtainJacobian(run.field, run.x, e.v).m, e.v)
RECURSIVE Halved(_, _)
Halved(dx, k) == IF k = 0 THEN dx ELSE Half(Halved(dx, k - 1))
\* The iteration reaches step 5, and no trial point x + dx, with dx the
\* Newton step halved 0 to MaxHalvings times, has a smaller residual norm.
NoHalvingDecreases ==
    /\ Residual2(run.x) >= run.ftol * run.ftol
    /\ ~ObtainJacobian(run.field, run.x, evaluate(run.field, run.x).v).nan
    /\ ~NewtonStep.singular
    /\ \A k \in 0..MaxHalvings :
          Residual2(VecAdd(run.x, Halved(NewtonStep.dx, k))) >= Residual2(run.x)
\* The callbacks an iteration makes with h halvings: evaluate at the current
\* point, the Jacobian (or n evaluations), and 1 + h trial evaluations.
CallbacksWith(h) ==
    1 + (IF HasJacobian(run.field) THEN 1 ELSE FieldDim(run.field)) + 1 + h

\* C22: in an unbounded solve (findRoots) every iteration either adopts a
\* point whose residual norm is strictly smaller than the one at the current
\* point (the iteration count goes up by one), or ends the solve at the
\* current point without adopting anything; an iteration halves its step at
\* most MaxHalvings times; and when no halving achieves a decrease the solve
\* returns Diverged at the current point.
C22_BacktrackingDecreasesResidual ==
    [][(IterationStep /\ hist.call = "findRoots") =>
          /\ \/ /\ HandedOn # run.x
                /\ Residual2(HandedOn) >= 0
                /\ Residual2(HandedOn) < Residual2(run.x)
                /\ IF run'.active THEN run'.iters = run.iters + 1
                                  ELSE ret'.n = run.iters + 1
             \/ /\ ~run'.active /\ ret'.x = run.x /\ ret'.n = run.iters
                /\ ret'.status \notin {ConvergedX, MaxIterations}
          /\ hist'.calls - hist.calls <= CallbacksWith(MaxHalvings)
          /\ NoHalvingDecreases => ret' = Result(run.op, Diverged, run.x, run.iters)]_vars

\* C22 witness: an unbounded solve adopted a point after halving its step
\* and then returned Diverged, no halving of the next step giving a decrease.
C22_Witness ==
    /\ ret.kind = "result" /\ ret.status = Diverged /\ hist.call = "findRoots"
    /\ ret.n >= 1 /\ ret.x # hist.solve.start
    /\ hist.calls = CallbacksWith(1) + CallbacksWith(MaxHalvings)

\* Every candidate of the solve from x on is inside the box as it is computed,
\* so that clamping changes none of them.
RECURSIVE NeverClamped(_, _, _, _, _, _, _, _, _, _)
NeverClamped(f, x, lo, hi, ftol, xtol, iters, maxIter, prevR2, grown) ==
    LET it == Iteration(f, x, FALSE, <<>>, <<>>, ftol, xtol, prevR2, grown) IN
    \/ it.used = 0
    \/ /\ InBox(it.x, lo, hi)
       /\ \/ it.done
          \/ iters + 1 >= maxIter
          \/ NeverClamped(f, it.x, lo, hi, ftol, xtol, iters + 1, maxIter, it.r2, it.grown)
\* What findRoots returns for the field, the tolerances, the start point and
\* the iteration cap of the solve that was asked for.
UnboundedSolveOf(h) ==
    Solve(activeField, h.solve.start, FALSE, <<>>, <<>>,
          h.solve.ftol, h.solve.xtol, 0, h.solve.maxIter, -1, 0)
BoundsHadNoEffect ==
    /\ ret.kind = "result" /\ hist.call = "findRootsBounded"
    /\ Len(hist.solve.start) = FieldDim(activeField)
    /\ Len(hist.solve.lo) = Len(hist.solve.start)
    /\ Len(hist.solve.hi) = Len(hist.solve.start)
    /\ InBox(hist.solve.start, hist.solve.lo, hist.solve.hi)
    /\ NeverClamped(activeField, hist.solve.start, hist.solve.lo, hist.solve.hi,
                    hist.solve.ftol, hist.solve.xtol, 0, hist.solve.maxIter, -1, 0)

\* C23: when the start point is inside the box and no candidate is changed by
\* clamping, findRootsBounded returns the (status, x, iterations) findRoots
\* returns for the same field, tolerances, start point and iteration cap.
C23_BoundedIsFindRootsWhenBoundsIdle ==
    BoundsHadNoEffect =>
        /\ ret.status = UnboundedSolveOf(hist).status
        /\ ret.x = UnboundedSolveOf(hist).x
        /\ ret.n = UnboundedSolveOf(hist).n

\* C23 witness: a bounded solve started inside the box away from its lower
\* bound that adopted a point and ended Diverged in a later iteration, none
\* of its candidates having left the box.
C23_Witness ==
    /\ BoundsHadNoEffect /\ ret.n >= 1 /\ ret.x # hist.solve.start
    /\ hist.solve.start # hist.solve.lo /\ ret.status = Diverged

\* The keys and the values of a dict.
DictKeys(d) == {d.items[2 * i - 1] : i \in 1..(Len(d.items) \div 2)}
DictValues(d) == {d.items[2 * i] : i \in 1..(Len(d.items) \div 2)}

\* C24: RobotInfo(name, parts=p) with p given raises ValueError exactly when
\* p is not a dict or some value of p is not iterable; when p is a dict from
\* part names (strings of any length) to link lists the constructor succeeds
\* and the parts attribute is p.
C24_PartsValidated ==
    (gcall.op = "RobotInfo" /\ gcall.parts.type # "NoneType") =>
        /\ gcall.out.err = "ValueError" <=>
              \/ gcall.parts.type # "dict"
              \/ \E v \in DictValues(gcall.parts) : ~hasattr_iter(v)
        /\ (/\ gcall.parts.type = "dict"
            /\ \A k \in DictKeys(gcall.parts) : k.type = "str"
            /\ \A v \in DictValues(gcall.parts) : v.type = "list") =>
               /\ gcall.out.err = ""
               /\ gcall.out.self.a["parts"] = gcall.parts

\* C25: a failed model load is not cached: after a call of klamptModel on a
\* RobotInfo whose robotModel the user did not set and for which no load of
\* the model file has succeeded so far (the first call, or a later call with
\* the same unloadable modelFile), the call has raised IOError and robotModel
\* is still None.
C25_FailedLoadNotCached ==
    (/\ rhist.call = "klamptModel"
     /\ ~rhist.km[rhist.obj].external
     /\ rhist.km[rhist.obj].okLoads = 0) =>
        /\ rret.kind = "raise" /\ rret.err = "IOError"
        /\ heap[rhist.obj].robotModel = NoModel

===========================================================================
